---- MODULE Spec2Model ----
(***************************************************************************)
(* Model of server.js: an Express application with a JSON body parser in   *)
(* front of every route, POST /login, POST /register, GET /profile behind  *)
(* the authenticateToken middleware, and POST /logout.                     *)
(*                                                                         *)
(* The clock is the value the code reads, Math.floor(Date.now() / 1000):   *)
(* jsonwebtoken stamps and compares whole seconds only.                    *)
(* A string the code splits is a sequence of chunks (a space, a word, a    *)
(* compact JWT); a JWT is the record of its three parts; an HMAC is the    *)
(* record of what was signed, with which key and algorithm (no two inputs  *)
(* share a signature).  JSON objects are records, a field that is absent   *)
(* is absent from the record's DOMAIN.                                     *)
(* The profile's derived email and the two documentation routes take no    *)
(* part in what is checked here and are left out of the response bodies.   *)
(***************************************************************************)
EXTENDS Integers, Sequences, FiniteSets, TLC

VARIABLES
  now,         \* Math.floor(Date.now() / 1000)
  SECRET_KEY,  \* server.js:7
  namePool,    \* server.js:25-36
  issued,      \* the tokens POST /login has answered with, held by clients
  loggedOut,   \* the issued tokens whose holder has since sent POST /logout
  pending,     \* requests received whose body the parser is still reading
  last,        \* the exchange of the latest step, when it served a request
  advances     \* clock advances so far

vars == <<now, SECRET_KEY, namePool, issued, loggedOut, pending, last, advances>>

-----------------------------------------------------------------------------
\* Bounds of the model.

MaxAdvances == 2
MaxIssued == 1
MaxPending == 2

\* Program constants.

\* expiresIn: '1h', in the seconds jsonwebtoken adds to iat
ExpiresIn == 3600

SecretKeyLiteral == "your-secret-key-change-in-production"

NamePoolLiteral ==
  << "Alice Johnson", "Bob Smith", "Charlie Brown", "Diana Prince",
     "Ethan Hunt", "Fiona Green", "George Wilson", "Hannah Lee",
     "Ivan Torres", "Julia Martinez" >>

\* jsonwebtoken's default algorithms for a secret (string) key
HS_ALGS == {"HS256", "HS384", "HS512"}

\* The JavaScript value undefined, where a string is expected.
Undefined == "undefined"

\* The environment.

\* A key the server does not hold.
OtherKey == "some-other-key"

\* Values Math.random() returns, as <<numerator, denominator>> in [0, 1):
\* the bottom of the range and a value near its top.
RandomValues == {<<0, 1>>, <<19, 20>>}

\* Seconds the clock moves in one step: a second, and an hour less a second.
AdvanceSteps == {1, ExpiresIn - 1}

-----------------------------------------------------------------------------
\* jsonwebtoken

\* HMAC of the signing input (header and payload) under key, by algorithm alg.
Hmac(alg, key, header, payload) ==
  [mac |-> alg, key |-> key, header |-> header, payload |-> payload]

EmptySignature == [mac |-> "none"]

\* jwt.sign(payload, key, {expiresIn: '1h'}) at clock value t; a payload
\* field whose value is undefined is dropped by JSON.stringify.
jwtSign(payload, key, t) ==
  LET header == [alg |-> "HS256", typ |-> "JWT"]
      kept == {f \in DOMAIN payload : payload[f] # Undefined}
      claims == [f \in kept |-> payload[f]] @@ [iat |-> t, exp |-> t + ExpiresIn]
  IN [header |-> header, payload |-> claims,
      signature |-> Hmac("HS256", key, header, claims)]

\* A segment of a split string is a compact JWT when it is one JWT chunk.
IsJwt(segment) == Len(segment) = 1 /\ segment[1].kind = "jwt"

Ok(payload) == [err |-> "", message |-> "", decoded |-> payload]
Err(name, message) == [err |-> name, message |-> message]

\* jwt.verify that decodes the token without checking its signature.
jwtVerifySkipSignature(token, key, t) ==
  IF token = <<>> THEN Err("JsonWebTokenError", "jwt must be provided")
  ELSE IF ~IsJwt(token) THEN Err("JsonWebTokenError", "jwt malformed")
  ELSE LET jwt == token[1].jwt
           payload == jwt.payload
       IN IF "exp" \in DOMAIN payload /\ t >= payload.exp
            THEN Err("TokenExpiredError", "jwt expired")
          ELSE Ok(payload)

\* jwt.verify that does not look at nbf.
jwtVerifyIgnoreNotBefore(token, key, t) ==
  IF token = <<>> THEN Err("JsonWebTokenError", "jwt must be provided")
  ELSE IF ~IsJwt(token) THEN Err("JsonWebTokenError", "jwt malformed")
  ELSE LET jwt == token[1].jwt
           payload == jwt.payload
       IN IF jwt.signature = EmptySignature
            THEN Err("JsonWebTokenError", "jwt signature is required")
          ELSE IF jwt.header.alg \notin HS_ALGS
            THEN Err("JsonWebTokenError", "invalid algorithm")
          ELSE IF jwt.signature # Hmac(jwt.header.alg, key, jwt.header, payload)
            THEN Err("JsonWebTokenError", "invalid signature")
          ELSE IF "exp" \in DOMAIN payload /\ t >= payload.exp
            THEN Err("TokenExpiredError", "jwt expired")
          ELSE Ok(payload)

\* jwt.verify that still accepts a token at the second of its expiry.
jwtVerifyExpiryInclusive(token, key, t) ==
  IF token = <<>> THEN Err("JsonWebTokenError", "jwt must be provided")
  ELSE IF ~IsJwt(token) THEN Err("JsonWebTokenError", "jwt malformed")
  ELSE LET jwt == token[1].jwt
           payload == jwt.payload
       IN IF jwt.signature = EmptySignature
            THEN Err("JsonWebTokenError", "jwt signature is required")
          ELSE IF jwt.header.alg \notin HS_ALGS
            THEN Err("JsonWebTokenError", "invalid algorithm")
          ELSE IF jwt.signature # Hmac(jwt.header.alg, key, jwt.header, payload)
            THEN Err("JsonWebTokenError", "invalid signature")
          ELSE IF "nbf" \in DOMAIN payload /\ payload.nbf > t
            THEN Err("NotBeforeError", "jwt not active")
          ELSE IF "exp" \in DOMAIN payload /\ t > payload.exp
            THEN Err("TokenExpiredError", "jwt expired")
          ELSE Ok(payload)

\* jwt.verify(token, key, callback) at clock value t, with default options:
\* the (err, decoded) pair the callback is called with.  A string key
\* allows the HMAC algorithms only; nbf and exp are checked when the payload
\* has them, against the clock in whole seconds.
jwtVerify(token, key, t) ==
  IF token = <<>> THEN Err("JsonWebTokenError", "jwt must be provided")
  ELSE IF ~IsJwt(token) THEN Err("JsonWebTokenError", "jwt malformed")
  ELSE LET jwt == token[1].jwt
           payload == jwt.payload
       IN IF jwt.signature = EmptySignature
            THEN Err("JsonWebTokenError", "jwt signature is required")
          ELSE IF jwt.header.alg \notin HS_ALGS
            THEN Err("JsonWebTokenError", "invalid algorithm")
          ELSE IF jwt.signature # Hmac(jwt.header.alg, key, jwt.header, payload)
            THEN Err("JsonWebTokenError", "invalid signature")
          ELSE IF "nbf" \in DOMAIN payload /\ payload.nbf > t
            THEN Err("NotBeforeError", "jwt not active")
          ELSE IF "exp" \in DOMAIN payload /\ t >= payload.exp
            THEN Err("TokenExpiredError", "jwt expired")
          ELSE Ok(payload)

-----------------------------------------------------------------------------
\* Strings and arrays

SP == [kind |-> "sp"]
Word(w) == [kind |-> "word", word |-> w]
JwtChunk(jwt) == [kind |-> "jwt", jwt |-> jwt]

\* s.split(' '): the segments between the spaces of s, empty ones included.
RECURSIVE SplitFrom(_, _, _)
SplitFrom(s, i, current) ==
  IF i > Len(s) THEN <<current>>
  ELSE IF s[i] = SP THEN <<current>> \o SplitFrom(s, i + 1, <<>>)
  ELSE SplitFrom(s, i + 1, Append(current, s[i]))

Split(s) == SplitFrom(s, 1, <<>>)

\* array[i] with JavaScript's 0-based index: undefined outside the array.
At(array, i, undefined) ==
  IF i >= 0 /\ i < Len(array) THEN array[i + 1] ELSE undefined

\* Math.round in the place of Math.floor.
RandomIndexRounded(r, n) == (2 * r[1] * n + r[2]) \div (2 * r[2])

\* Math.floor(Math.random() * n) for the value r Math.random() returned.
RandomIndex(r, n) == (r[1] * n) \div r[2]

-----------------------------------------------------------------------------
\* Requests and responses

\* A request: headers is a record of the headers sent, body the raw bytes
\* ("" when the request carries none).
Request(method, path, headers, body) ==
  [method |-> method, path |-> path, headers |-> headers, body |-> body]

NoHeaders == <<>>
Authorization(value) == "authorization" :> value
ContentType(value) == "content-type" :> value

\* req.headers[name], with the value that stands for undefined when the
\* header was not sent (the empty string: the code only tests truthiness).
Header(req, name, undefined) ==
  IF name \in DOMAIN req.headers THEN req.headers[name] ELSE undefined

\* res.status(status).json(body)
Json(status, body) == [status |-> status, body |-> body]

\* Express's final handler, for an error passed to next() or thrown.
ErrorPage(status, name) == [status |-> status, body |-> [html |-> name]]

\* The bodies JSON.parse accepts that body-parser's strict mode lets through
\* (an object or an array), among the bodies of the model.
StrictJsonTexts == {"{}", "{\"username\":\"alice\",\"password\":\"secret\"}"}

\* app.use(bodyParser.json()): "" when the request goes on to the routes,
\* else the error handed to Express.  A request without a body, or whose
\* content type is not application/json, is passed on unread.
bodyParserJson(req) ==
  IF req.body = "" THEN ""
  ELSE IF Header(req, "content-type", "") # "application/json" THEN ""
  ELSE IF req.body \notin StrictJsonTexts THEN "SyntaxError"
  ELSE ""

\* authenticateToken without its test for a missing token.
authenticateTokenAlwaysVerify(req, key, t) ==
  LET authHeader == Header(req, "authorization", <<>>)
      token == IF authHeader = <<>> THEN <<>> ELSE At(Split(authHeader), 1, <<>>)
      v == jwtVerify(token, key, t)
  IN IF v.err # ""
       THEN [next |-> FALSE, verified |-> TRUE,
             resp |-> Json(403, [error |-> "Invalid or expired token"])]
     ELSE [next |-> TRUE, verified |-> TRUE, user |-> v.decoded]

\* authenticateToken(req, res, next) at clock value t: what it answers, or
\* next = TRUE with req.user set; verified tells whether jwt.verify ran.
authenticateToken(req, key, t) ==
  LET authHeader == Header(req, "authorization", <<>>)
      token == IF authHeader = <<>> THEN <<>> ELSE At(Split(authHeader), 1, <<>>)
  IN IF token = <<>>
       THEN [next |-> FALSE, verified |-> FALSE,
             resp |-> Json(401, [error |-> "Access token required"])]
     ELSE LET v == jwtVerify(token, key, t)
          IN IF v.err # ""
               THEN [next |-> FALSE, verified |-> TRUE,
                     resp |-> Json(403, [error |-> "Invalid or expired token"])]
             ELSE [next |-> TRUE, verified |-> TRUE, user |-> v.decoded]

\* The exchange a step leaves in last.
Exchange(req, r, resp, verified, handled) ==
  [req |-> req, rand |-> r, time |-> now, resp |-> resp,
   verified |-> verified, handled |-> handled]

NoExchange == [none |-> TRUE]

-----------------------------------------------------------------------------
\* Route handlers: each is the effect of one request on the program's
\* variables and the response it sends.

\* A login that signs the pool's first name whatever name it drew.
LoginBodyFirstName(pool, key, r, t) ==
  LET randomName == At(pool, RandomIndex(r, Len(pool)), Undefined)
      token == jwtSign([username |-> At(pool, 0, Undefined)], key, t)
  IN [success |-> TRUE, username |-> randomName, token |-> token]

\* The login response for Math.random() = r at clock value t.
LoginBody(pool, key, r, t) ==
  LET randomName == At(pool, RandomIndex(r, Len(pool)), Undefined)
      token == jwtSign([username |-> randomName], key, t)
  IN [success |-> TRUE, username |-> randomName, token |-> token]

\* A login that takes the name it drew out of the pool.
LoginRouteDrawingFromPool(req, r) ==
  LET body == LoginBody(namePool, SECRET_KEY, r, now)
      i == RandomIndex(r, Len(namePool)) + 1
  IN /\ last' = Exchange(req, r, Json(200, body), FALSE, TRUE)
     /\ issued' = IF Cardinality(issued) < MaxIssued
                    THEN issued \cup {body} ELSE issued
     /\ namePool' = SubSeq(namePool, 1, i - 1) \o SubSeq(namePool, i + 1, Len(namePool))
     /\ UNCHANGED <<SECRET_KEY, loggedOut>>

\* app.post('/login', ...)
LoginRoute(req, r) ==
  LET body == LoginBody(namePool, SECRET_KEY, r, now)
  IN /\ last' = Exchange(req, r, Json(200, body), FALSE, TRUE)
     /\ issued' = IF Cardinality(issued) < MaxIssued
                    THEN issued \cup {body} ELSE issued
     /\ UNCHANGED <<SECRET_KEY, namePool, loggedOut>>

\* app.post('/register', ...)
RegisterRoute(req, r) ==
  /\ last' = Exchange(req, r,
               Json(200, [success |-> TRUE,
                          message |-> "Registration successful"]),
               FALSE, TRUE)
  /\ UNCHANGED <<SECRET_KEY, namePool, issued, loggedOut>>

\* The handler of app.get('/profile', authenticateToken, ...): reading
\* username of a payload without one throws in toLowerCase().
ProfileBody(user) ==
  IF "username" \notin DOMAIN user THEN ErrorPage(500, "TypeError")
  ELSE Json(200, [success |-> TRUE,
                  profile |-> [username |-> user.username,
                               joined |-> "2024-01-15",
                               bio |-> "This is a dummy profile for testing purposes",
                               posts |-> 42, followers |-> 128,
                               following |-> 95]])

\* app.get('/profile', authenticateToken, ...)
ProfileRoute(req, r) ==
  LET auth == authenticateToken(req, SECRET_KEY, now)
  IN /\ last' = IF auth.next
                  THEN Exchange(req, r, ProfileBody(auth.user), auth.verified, TRUE)
                  ELSE Exchange(req, r, auth.resp, auth.verified, FALSE)
     /\ UNCHANGED <<SECRET_KEY, namePool, issued, loggedOut>>

\* The issued login responses whose token the request carries (its holder
\* sent the request).
SentBy(req) ==
  {b \in issued : Header(req, "authorization", <<>>) = <<Word("Bearer"), SP, JwtChunk(b.token)>>}

\* A logout that replaces the signing key to end the sessions.
LogoutRouteRotatingKey(req, r) ==
  /\ last' = Exchange(req, r,
               Json(200, [success |-> TRUE,
                          message |-> "Logout successful. Please clear the token on client side."]),
               FALSE, TRUE)
  /\ loggedOut' = loggedOut \cup SentBy(req)
  /\ SECRET_KEY' = OtherKey
  /\ UNCHANGED <<namePool, issued>>

\* app.post('/logout', ...)
LogoutRoute(req, r) ==
  /\ last' = Exchange(req, r,
               Json(200, [success |-> TRUE,
                          message |-> "Logout successful. Please clear the token on client side."]),
               FALSE, TRUE)
  /\ loggedOut' = loggedOut \cup SentBy(req)
  /\ UNCHANGED <<SECRET_KEY, namePool, issued>>

\* The application: the body parser, then the route of the request.
App(req, r) ==
  LET parseError == bodyParserJson(req)
  IN IF parseError # ""
       THEN /\ last' = Exchange(req, r, ErrorPage(400, parseError), FALSE, FALSE)
            /\ UNCHANGED <<SECRET_KEY, namePool, issued, loggedOut>>
     ELSE IF req.method = "POST" /\ req.path = "/login" THEN LoginRoute(req, r)
     ELSE IF req.method = "POST" /\ req.path = "/register" THEN RegisterRoute(req, r)
     ELSE IF req.method = "GET" /\ req.path = "/profile" THEN ProfileRoute(req, r)
     ELSE IF req.method = "POST" /\ req.path = "/logout" THEN LogoutRoute(req, r)
     ELSE /\ last' = Exchange(req, r, ErrorPage(404, "Not Found"), FALSE, FALSE)
          /\ UNCHANGED <<SECRET_KEY, namePool, issued, loggedOut>>

-----------------------------------------------------------------------------
\* The requests clients send

Bodies ==
  { [headers |-> NoHeaders, body |-> ""],
    [headers |-> ContentType("application/json"),
     body |-> "{\"username\":\"alice\",\"password\":\"secret\"}"],
    [headers |-> ContentType("application/json"), body |-> "{\"username\": "],
    [headers |-> ContentType("text/plain"), body |-> "{\"username\": "] }

IssuedTokens == {b.token : b \in issued}

Without(record, field) == [f \in DOMAIN record \ {field} |-> record[f]]

\* A pool name other than u.
OtherName(u) == IF u = namePool[1] THEN namePool[2] ELSE namePool[1]

\* An issued token with its payload altered and its signature kept.
PayloadAltered(k) ==
  { [k EXCEPT !.payload.username = OtherName(@)],
    [k EXCEPT !.payload.exp = @ + ExpiresIn],
    [k EXCEPT !.payload = Without(@, "exp")] }

\* An issued token with its signature altered and its payload kept.
SignatureAltered(k) ==
  { [k EXCEPT !.signature = Hmac(k.header.alg, OtherKey, k.header, k.payload)],
    [k EXCEPT !.signature = EmptySignature] }
  \cup {[k EXCEPT !.signature = j.signature] : j \in IssuedTokens \ {k}}

Altered == UNION {PayloadAltered(k) \cup SignatureAltered(k) : k \in IssuedTokens}

\* A token anyone holding key makes: header and payload of their choosing,
\* signed as the header says.
Make(alg, payload, key) ==
  LET header == [alg |-> alg, typ |-> "JWT"]
  IN [header |-> header, payload |-> payload,
      signature |-> IF alg = "none" THEN EmptySignature
                    ELSE Hmac(alg, key, header, payload)]

MadePayloads ==
  LET u == [username |-> namePool[1], iat |-> now]
  IN { u,
       u @@ [exp |-> now],
       u @@ [exp |-> now + 1],
       u @@ [nbf |-> now + 1],
       u @@ [nbf |-> now, exp |-> now + 1],
       u @@ [nbf |-> now + 1, exp |-> now + ExpiresIn],
       [iat |-> now, exp |-> now + 1] }

\* The signing key is a literal of the published source: a token made with
\* it is a token string like any other.
Made ==
  {Make("HS256", p, SECRET_KEY) : p \in MadePayloads}
  \cup {Make(alg, [username |-> namePool[1], iat |-> now, exp |-> now + 1], SECRET_KEY) :
          alg \in {"HS512", "RS256", "none"}}
  \cup {Make("HS256", [username |-> namePool[1], iat |-> now, exp |-> now + 1], OtherKey)}

Bearer(chunk) == <<Word("Bearer"), SP, chunk>>

\* Authorization values that are not of the form "Bearer <token>".
OtherForms(chunk) ==
  { <<Word("Basic"), SP, chunk>>,
    <<chunk>>,
    <<Word("Bearer"), SP, SP, chunk>>,
    <<Word("Bearer"), SP, chunk, SP, Word("garbage")>>,
    <<Word("Bearer")>> }

ProfileRequests ==
  {Request("GET", "/profile", b.headers, b.body) : b \in Bodies}
  \cup {Request("GET", "/profile", Authorization(Bearer(JwtChunk(k))) @@ b.headers, b.body) :
          k \in IssuedTokens, b \in Bodies}
  \cup {Request("GET", "/profile", Authorization(Bearer(JwtChunk(k))), "") :
          k \in Altered \cup Made}
  \cup {Request("GET", "/profile", Authorization(Bearer(Word("garbage"))), "")}
  \cup {Request("GET", "/profile", Authorization(h), "") :
          h \in UNION {OtherForms(c) : c \in {JwtChunk(k) : k \in IssuedTokens}
                                              \cup {Word("garbage")}}}

LoginRequests == {Request("POST", "/login", b.headers, b.body) : b \in Bodies}

RegisterRequests == {Request("POST", "/register", b.headers, b.body) : b \in Bodies}

LogoutRequests ==
  {Request("POST", "/logout", b.headers, b.body) : b \in Bodies}
  \cup {Request("POST", "/logout", Authorization(Bearer(JwtChunk(k))) @@ b.headers, b.body) :
          k \in IssuedTokens, b \in Bodies}

-----------------------------------------------------------------------------
\* Actions

Init ==
  /\ now = 0
  /\ SECRET_KEY = SecretKeyLiteral
  /\ namePool = NamePoolLiteral
  /\ issued = {}
  /\ loggedOut = {}
  /\ pending = {}
  /\ last = NoExchange
  /\ advances = 0

\* A request served as it arrives: the handlers run to completion, one at
\* a time, and last holds the exchange until the response has gone out.
PostLogin ==
  /\ last = NoExchange
  /\ \E req \in LoginRequests, r \in RandomValues : App(req, r)
  /\ UNCHANGED <<now, pending, advances>>

PostRegister ==
  /\ last = NoExchange
  /\ \E req \in RegisterRequests : App(req, <<0, 1>>)
  /\ UNCHANGED <<now, pending, advances>>

GetProfile ==
  /\ last = NoExchange
  /\ \E req \in ProfileRequests : App(req, <<0, 1>>)
  /\ UNCHANGED <<now, pending, advances>>

PostLogout ==
  /\ last = NoExchange
  /\ \E req \in LogoutRequests : App(req, <<0, 1>>)
  /\ UNCHANGED <<now, pending, advances>>

\* The response has been written to the client.
Respond ==
  /\ last # NoExchange
  /\ last' = NoExchange
  /\ UNCHANGED <<now, SECRET_KEY, namePool, issued, loggedOut, pending, advances>>

\* The clock moves on.
Advance ==
  /\ advances < MaxAdvances
  /\ \E d \in AdvanceSteps : now' = now + d
  /\ advances' = advances + 1
  /\ UNCHANGED <<SECRET_KEY, namePool, issued, loggedOut, pending, last>>

Next ==
  PostLogin \/ PostRegister \/ GetProfile \/ PostLogout \/ Respond \/ Advance

Spec == Init /\ [][Next]_vars

\* Requests in flight together: a request is received, the body parser
\* reads its body while other requests arrive and are served, and the
\* parser's callback then runs the rest of the chain to completion.
ConcurrentRequests ==
  { Request("POST", "/login", NoHeaders, ""),
    Request("POST", "/register", ContentType("application/json"), "{}"),
    Request("GET", "/profile", NoHeaders, "") }
  \cup {Request("GET", "/profile", Authorization(Bearer(JwtChunk(k))), "") :
          k \in IssuedTokens}
  \cup {Request("POST", "/logout", Authorization(Bearer(JwtChunk(k))), "") :
          k \in IssuedTokens}

Receive ==
  /\ Cardinality(pending) < MaxPending
  /\ \E req \in ConcurrentRequests \ pending : pending' = pending \cup {req}
  /\ UNCHANGED <<now, SECRET_KEY, namePool, issued, loggedOut, last, advances>>

Dispatch ==
  /\ last = NoExchange
  /\ \E req \in pending :
       /\ pending' = pending \ {req}
       /\ \E r \in IF req.path = "/login" THEN RandomValues ELSE {<<0, 1>>} :
            App(req, r)
  /\ UNCHANGED <<now, advances>>

NextConcurrent == Receive \/ Dispatch \/ Respond \/ Advance

SpecConcurrent == Init /\ [][NextConcurrent]_vars


-----------------------------------------------------------------------------
\* What the properties below speak of

Range(seq) == {seq[i] : i \in 1..Len(seq)}

Served(x) == x # NoExchange

\* The exchange went through the body parser to its route.
ReachedRoute(x) == Served(x) /\ x.resp.status # 400

IsProfile(x) == Served(x) /\ x.req.method = "GET" /\ x.req.path = "/profile"
IsLogin(x) == Served(x) /\ x.req.method = "POST" /\ x.req.path = "/login"
IsRegister(x) == Served(x) /\ x.req.method = "POST" /\ x.req.path = "/register"
IsLogout(x) == Served(x) /\ x.req.method = "POST" /\ x.req.path = "/logout"

AuthorizationOf(x) == Header(x.req, "authorization", <<>>)

\* The exchange presented chunk as "Authorization: Bearer <chunk>".
Presents(x, chunk) == AuthorizationOf(x) = Bearer(chunk)

\* The request carried "Authorization: Bearer <token>" for some token.
InBearerForm(x) ==
  LET h == AuthorizationOf(x)
  IN Len(h) = 3 /\ h[1] = Word("Bearer") /\ h[2] = SP /\ h[3] # SP

\* The token's signature is the server key's over its header and payload.
SignatureVerifies(jwt) ==
  /\ jwt.header.alg \in HS_ALGS
  /\ jwt.signature = Hmac(jwt.header.alg, SecretKeyLiteral, jwt.header, jwt.payload)

\* Time t is strictly before the expiry the token carries.
BeforeExpiry(jwt, t) == "exp" \in DOMAIN jwt.payload /\ t < jwt.payload.exp

\* The token carries no expiry, or t is strictly before it.
NotExpired(jwt, t) == "exp" \notin DOMAIN jwt.payload \/ t < jwt.payload.exp

\* The token carries no not-before time, or t has reached it.
Active(jwt, t) == "nbf" \notin DOMAIN jwt.payload \/ jwt.payload.nbf <= t

Forbidden == Json(403, [error |-> "Invalid or expired token"])
Unauthorized == Json(401, [error |-> "Access token required"])

IsProfileOf(resp, u) ==
  /\ resp.status = 200
  /\ resp.body.success = TRUE
  /\ resp.body.profile.username = u

-----------------------------------------------------------------------------
-----------------------------------------------------------------------------
\* C2: the token of a login response embeds the username of that response,
\* and GET /profile presenting an issued token inside its validity window
\* answers 200 with profile.username equal to the username the login
\* response gave (of the requests that reach the route: the body parser
\* answers a request with a malformed JSON body itself, see C9).
C2_IssueVerifyRoundTrip ==
  /\ (IsLogin(last) /\ ReachedRoute(last)) =>
       /\ "username" \in DOMAIN last.resp.body.token.payload
       /\ last.resp.body.token.payload.username = last.resp.body.username
  /\ \A b \in issued :
       (/\ IsProfile(last) /\ ReachedRoute(last)
        /\ Presents(last, JwtChunk(b.token))
        /\ last.time >= b.token.payload.iat
        /\ last.time < b.token.payload.exp)
         => IsProfileOf(last.resp, b.username)

\* The profile of the pool's last name, returned for its token late in the
\* token's window.
C2_Witness ==
  \E b \in issued :
    /\ b.username = NamePoolLiteral[10]
    /\ IsProfile(last) /\ Presents(last, JwtChunk(b.token))
    /\ last.time = b.token.payload.exp - 1
    /\ IsProfileOf(last.resp, b.username)

-----------------------------------------------------------------------------
\* The middleware would reject the token at the current time.
RejectsNow(jwt) ==
  ~authenticateToken(
      Request("GET", "/profile", Authorization(Bearer(JwtChunk(jwt))), ""),
      SECRET_KEY, now).next

C3_ExpiryStamp ==
  /\ (IsLogin(last) /\ ReachedRoute(last)) =>
       /\ "exp" \in DOMAIN last.resp.body.token.payload
       /\ last.resp.body.token.payload.exp = last.time + ExpiresIn
  /\ \A b \in issued :
       /\ "exp" \in DOMAIN b.token.payload
       /\ b.token.payload.exp = b.token.payload.iat + ExpiresIn

C3_RejectedFromExpiryOn ==
  \A b \in issued :
    (/\ IsProfile(last) /\ ReachedRoute(last)
     /\ Presents(last, JwtChunk(b.token))
     /\ last.time >= b.token.payload.iat + ExpiresIn)
      => (last.resp = Forbidden /\ ~last.handled)

C3_ExpiredIsRejected ==
  \A b \in issued :
    now >= b.token.payload.iat + ExpiresIn => RejectsNow(b.token)

\* C3: a token issued by POST /login at time t carries the expiry t + 1 hour
\* (3600 s); GET /profile presenting it at any time t' >= t + 1 hour, the
\* instant of expiry included, is answered 403 {error: 'Invalid or expired
\* token'}; and a token rejected for expiry is rejected after every later
\* step too: the middleware rejects it in every state from its expiry on,
\* and no step takes the clock back or the token away.
C3_ExpiresAfterOneHour ==
  [][/\ C3_ExpiryStamp /\ C3_RejectedFromExpiryOn /\ C3_ExpiredIsRejected
     /\ C3_ExpiryStamp' /\ C3_RejectedFromExpiryOn'
     /\ now' >= now
     /\ issued \subseteq issued']_vars

\* An issued token refused at the very second of its expiry.
C3_Witness ==
  \E b \in issued :
    /\ IsProfile(last) /\ Presents(last, JwtChunk(b.token))
    /\ last.time = b.token.payload.iat + ExpiresIn
    /\ last.resp = Forbidden

-----------------------------------------------------------------------------
\* C4: GET /profile presenting an issued token whose payload (identity or
\* expiry) was altered with the signature kept, or whose signature was
\* altered with the payload kept, answers 403 {error: 'Invalid or expired
\* token'} at every time, and the handler is not run (of the requests that
\* reach the route).
C4_AlteredTokenRejected ==
  \A k \in IssuedTokens :
    \A a \in PayloadAltered(k) \cup SignatureAltered(k) :
      (IsProfile(last) /\ ReachedRoute(last) /\ Presents(last, JwtChunk(a)))
        => (last.resp = Forbidden /\ ~last.handled /\ last.verified)

\* A token whose expiry was pushed back an hour, refused while the token it
\* was made from is still valid.
C4_Witness ==
  \E k \in IssuedTokens :
    /\ IsProfile(last)
    /\ Presents(last, JwtChunk([k EXCEPT !.payload.exp = @ + ExpiresIn]))
    /\ last.time < k.payload.exp
    /\ last.resp = Forbidden

-----------------------------------------------------------------------------
\* The token is one the middleware's verification accepts at time t.
ValidAt(chunk, t) ==
  /\ chunk.kind = "jwt"
  /\ SignatureVerifies(chunk.jwt)
  /\ Active(chunk.jwt, t)
  /\ NotExpired(chunk.jwt, t)

\* C5: of the GET /profile requests that reach the route, one with no token
\* (no Authorization header, or the scheme alone) is answered 401 {error:
\* 'Access token required'} without jwt.verify being called; one presenting
\* "Bearer <token>" whose token is invalid or expired is answered 403 {error:
\* 'Invalid or expired token'}; and every request the middleware turns away
\* gets exactly one of these two responses, the profile handler not run.
C5_MissingVersusInvalid ==
  (IsProfile(last) /\ ReachedRoute(last)) =>
    /\ AuthorizationOf(last) \in {<<>>, <<Word("Bearer")>>}
         => (last.resp = Unauthorized /\ ~last.verified /\ ~last.handled)
    /\ (InBearerForm(last) /\ ~ValidAt(AuthorizationOf(last)[3], last.time))
         => (last.resp = Forbidden /\ last.verified /\ ~last.handled)
    /\ ~last.handled => last.resp \in {Unauthorized, Forbidden}
    /\ last.resp = Unauthorized => ~last.verified
    /\ last.resp \in {Unauthorized, Forbidden} => ~last.handled

\* A request without an Authorization header, answered 401 unverified.
C5_Witness ==
  /\ IsProfile(last)
  /\ "authorization" \notin DOMAIN last.req.headers
  /\ last.resp = Unauthorized
  /\ ~last.verified

-----------------------------------------------------------------------------
\* C6, as stated: GET /profile answers 200 with the profile only when the
\* request carries "Authorization: Bearer <token>" with a token verification
\* accepts; a request whose header is absent or of another form does not get
\* the profile.
C6_ProfileOnlyForBearerHeader ==
  (IsProfile(last) /\ last.resp.status = 200) =>
    /\ InBearerForm(last)
    /\ ValidAt(AuthorizationOf(last)[3], last.time)

-----------------------------------------------------------------------------
\* The middleware and the handler would answer the token's holder with the
\* profile of username u at the current time.
AcceptsNow(jwt, u) ==
  LET auth == authenticateToken(
                Request("GET", "/profile", Authorization(Bearer(JwtChunk(jwt))), ""),
                SECRET_KEY, now)
  IN auth.next /\ IsProfileOf(ProfileBody(auth.user), u)

\* C7: in every state reached by any sequence of POST /login, POST
\* /register, POST /logout and GET /profile requests, each issued token
\* whose expiry has not come is still accepted with the identity it was
\* issued for; and GET /profile presenting, before its expiry, a token whose
\* holder has sent POST /logout answers 200 with that identity (of the
\* requests that reach the route).
C7_OnlyExpiryInvalidates ==
  \A b \in issued :
    /\ now < b.token.payload.exp => AcceptsNow(b.token, b.username)
    /\ (/\ b \in loggedOut
        /\ IsProfile(last) /\ ReachedRoute(last)
        /\ Presents(last, JwtChunk(b.token))
        /\ last.time < b.token.payload.exp)
         => IsProfileOf(last.resp, b.username)

\* The profile returned for a token after its holder logged out.
C7_Witness ==
  \E b \in loggedOut :
    /\ IsProfile(last) /\ Presents(last, JwtChunk(b.token))
    /\ IsProfileOf(last.resp, b.username)

-----------------------------------------------------------------------------
\* C9, as stated: POST /register and POST /logout answer 200 with their
\* fixed bodies for every request, whatever its body and headers.
C9_FixedBodiesWhateverTheInput ==
  /\ IsRegister(last) =>
       last.resp = Json(200, [success |-> TRUE,
                              message |-> "Registration successful"])
  /\ IsLogout(last) =>
       last.resp = Json(200, [success |-> TRUE,
                              message |-> "Logout successful. Please clear the token on client side."])

-----------------------------------------------------------------------------
\* C10: every response of POST /login (of the requests that reach the route)
\* is 200 with success: true, a username that is one of the 10 pool values,
\* the random index being within 0..9, and a token that is a signed JWT;
\* and the pool always holds its 10 initial names.
C10_LoginAnswersWithPoolName ==
  /\ namePool = NamePoolLiteral
  /\ Len(namePool) = 10
  /\ (IsLogin(last) /\ ReachedRoute(last)) =>
       /\ last.resp.status = 200
       /\ DOMAIN last.resp.body = {"success", "username", "token"}
       /\ last.resp.body.success = TRUE
       /\ RandomIndex(last.rand, Len(namePool)) \in 0..9
       /\ last.resp.body.username \in Range(NamePoolLiteral)
       /\ last.resp.body.token.signature # EmptySignature

\* A login that drew the top of Math.random()'s range and got the pool's
\* last name, after an earlier login.
C10_Witness ==
  /\ IsLogin(last)
  /\ last.rand = <<19, 20>>
  /\ last.resp.body.username = "Julia Martinez"
  /\ issued # {}

-----------------------------------------------------------------------------
\* The response a server just started answers the request with, at clock
\* value t and for Math.random() = r.
FreshResponse(req, r, t) ==
  IF bodyParserJson(req) # "" THEN ErrorPage(400, bodyParserJson(req))
  ELSE IF req.method = "POST" /\ req.path = "/login"
    THEN Json(200, LoginBody(NamePoolLiteral, SecretKeyLiteral, r, t))
  ELSE IF req.method = "POST" /\ req.path = "/register"
    THEN Json(200, [success |-> TRUE, message |-> "Registration successful"])
  ELSE IF req.method = "GET" /\ req.path = "/profile"
    THEN LET auth == authenticateToken(req, SecretKeyLiteral, t)
         IN IF auth.next THEN ProfileBody(auth.user) ELSE auth.resp
  ELSE Json(200, [success |-> TRUE,
                  message |-> "Logout successful. Please clear the token on client side."])

\* What the handlers read: the key, the pool and the clock.
C8_NothingSharedIsWritten ==
  (last' # last /\ Served(last')) =>
    /\ SECRET_KEY' = SECRET_KEY
    /\ namePool' = namePool
    /\ now' = now
    /\ last'.time = now
    /\ last'.resp = FreshResponse(last'.req, last'.rand, last'.time)

\* C8: whatever requests are in flight and in whatever order they are
\* served, serving a request writes none of what the handlers read (the
\* signing key, the name pool), the key and the pool stay as they were at
\* process start, and the response is the one a server just started would
\* give the same request at the same time with the same random draw.
C8_RequestsAreIndependent ==
  [][/\ SECRET_KEY = SecretKeyLiteral /\ namePool = NamePoolLiteral
     /\ SECRET_KEY' = SecretKeyLiteral /\ namePool' = NamePoolLiteral
     /\ C8_NothingSharedIsWritten]_vars

\* A token's profile served while the logout of the same token, received
\* too, still waits for its body to be read.
C8_Witness ==
  \E b \in issued :
    /\ IsProfile(last) /\ Presents(last, JwtChunk(b.token))
    /\ IsProfileOf(last.resp, b.username)
    /\ Request("POST", "/logout", Authorization(Bearer(JwtChunk(b.token))), "") \in pending

====
